---- MODULE Spec2Model ----
(***************************************************************************)
(* Identity and key-management core of osnova_lib: the encrypted file      *)
(* store, the key cocoon (vault), KeyService and IdentityService, and the  *)
(* size-bounded CacheManager with its two read-write locks.                *)
(*                                                                         *)
(* Strings are sequences of byte values, so that formatting and            *)
(* concatenation are computed rather than assumed injective.  32-byte      *)
(* secrets (master keys, cocoon keys) are opaque tokens.  HKDF-SHA256,     *)
(* Ed25519 and X25519 are ideal: their output is the tuple of the inputs   *)
(* the primitive really depends on, so two outputs are equal exactly when  *)
(* those inputs are equal.                                                 *)
(***************************************************************************)
EXTENDS Integers, Sequences, FiniteSets, TLC

VARIABLES
    fs,               \* FileStorage: relative path -> ciphertext of the files that exist
    now,              \* SystemTime::now() in Unix seconds, as last read
    cocoon_key,       \* KeyService.cocoon_key of the running service instance
    last,             \* the call made last and what it returned
    issued,           \* history: every key a derivation stored and returned, by (component, index, type)
    pc,               \* concurrent callers: position of each caller inside its call
    call,             \* concurrent callers: the arguments of the call in progress
    local,            \* concurrent callers: the cocoon each caller loaded
    resp,             \* concurrent callers: what the call returned
    restarts,         \* how many times the key service was opened again
    overlap,          \* history: per caller, the callers that saved after it loaded
    fn_in,            \* pure-function checks: the inputs drawn
    fn_out,           \* pure-function checks: the outputs computed
    entries,          \* CacheManager.entries: key -> CacheEntry
    current_size,     \* CacheManager.current_size
    cache_files,      \* the files of cache_dir: file name -> length of the data
    entries_lock,     \* the RwLock around entries: who holds it, who waits
    size_lock         \* the RwLock around current_size: who holds it, who waits

vars == <<fs, now, cocoon_key, last, issued, restarts,
          pc, call, local, resp, overlap, fn_in, fn_out,
          entries, current_size, cache_files, entries_lock, size_lock>>

----------------------------------------------------------------------------
(* Bounds *)

\* largest index value; stands for u64::MAX (indices are 0..IndexMax)
IndexMax == 1
\* last clock value
MaxTime == 2
\* largest number of entries a vault is grown to
MaxKeys == 2
\* largest number of restarts of the key service
MaxRestarts == 1

----------------------------------------------------------------------------
(* Values *)

\* "a"
CompA == <<97>>
\* "a\0"
CompANul == <<97, 0>>
\* "a-b"
CompADashB == <<97, 45, 98>>
Components == {CompA, CompANul}

Indices == 0..IndexMax

Ed25519 == "Ed25519"
X25519 == "X25519"
Secp256k1 == "Secp256k1"
KeyType == {Ed25519, X25519, Secp256k1}

MasterKeys == {"mk1", "mk2"}
CocoonKeys == {"ck1", "ck2"}

Ok(v) == [ok |-> TRUE, val |-> v]
Err(kind) == [ok |-> FALSE, err |-> kind]

----------------------------------------------------------------------------
(* crypto::encryption *)

\* the seed every MiniCocoon is made with: &[0u8; 32]
NonceSeed == <<0>>

\* the draw-th nonce of a MiniCocoon's generator: a function of its seed
nonce_of(seed, draw) == <<"chacha-rng", seed, draw>>

\* ChaCha20 under (key, nonce): the encrypted bytes; the plaintext is their
\* fourth component for whoever holds key and nonce
seal(key, nonce, plaintext) == <<"chacha20", key, nonce, plaintext>>

\* Poly1305 tag over the encrypted bytes under (key, nonce)
tag_of(key, nonce, body) == <<"poly1305", key, nonce, body>>

\* wrap computing the tag over the plaintext instead of the encrypted bytes
wrap_tag_over_plaintext(key, nonce, plaintext) ==
    [nonce |-> nonce,
     tag |-> tag_of(key, nonce, plaintext),
     body |-> seal(key, nonce, plaintext)]

\* MiniCocoon::wrap with a given nonce: nonce, tag and encrypted bytes
wrap(key, nonce, plaintext) ==
    [nonce |-> nonce,
     tag |-> tag_of(key, nonce, seal(key, nonce, plaintext)),
     body |-> seal(key, nonce, plaintext)]

\* encrypt with one MiniCocoon kept over the calls: every call draws the next
\* nonce of the generator (fn_in counts the calls made so far)
encrypt_fresh_nonce(key, plaintext) ==
    wrap(key, nonce_of(NonceSeed, Len(fn_in)), plaintext)

\* MiniCocoon::from_key(key, &[0u8; 32]).wrap: the MiniCocoon is new in every
\* call, so the nonce is the first draw of the same seed every time
encrypt(key, plaintext) ==
    wrap(key, nonce_of(NonceSeed, 0), plaintext)

\* decrypt without the verification of the tag
decrypt_unverified(key, ciphertext) ==
    Ok(ciphertext.body[4])

\* MiniCocoon::unwrap: the tag verifies only under the key and nonce it was
\* made with and over the bytes it was made over
decrypt(key, ciphertext) ==
    IF ciphertext.tag = tag_of(key, ciphertext.nonce, ciphertext.body)
    THEN Ok(ciphertext.body[4])
    ELSE Err("Crypto")

----------------------------------------------------------------------------
(* storage::file *)

\* a relative path is the sequence of its components
IdentityPath == <<"identity", "root.enc">>
CocoonPath == <<"identity", "keys.cocoon">>

\* base_path.join(relative_path) as the file system resolves it: the file a
\* path names; "." components name the directory they stand in
full_path(path) == SelectSeq(path, LAMBDA c : c # ".")

exists(files, path) == full_path(path) \in DOMAIN files

\* FileStorage::write: encrypt, then replace the whole file
write(files, path, data, key) ==
    [p \in DOMAIN files \cup {full_path(path)} |->
        IF p = full_path(path) THEN encrypt(key, data) ELSE files[p]]

\* FileStorage::read: read the file, then decrypt
read(files, path, key) ==
    IF ~exists(files, path)
    THEN Err("Storage")
    ELSE decrypt(key, files[full_path(path)])

\* FileStorage::delete keeping the file
delete_keeping(files, path) ==
    files

\* FileStorage::delete
delete(files, path) ==
    [p \in DOMAIN files \ {full_path(path)} |-> files[p]]

\* serde_json::to_vec / from_slice of a value that round-trips
to_json(v) == <<"json", v>>
from_json(doc) == doc[2]

----------------------------------------------------------------------------
(* crypto::key_derivation *)

\* block size of SHA-256 in bytes: HMAC keys are brought to this length
HmacBlockSize == 64

\* u64::to_le_bytes / u32::to_le_bytes: n bytes, least significant first
RECURSIVE to_le_bytes(_, _)
to_le_bytes(value, n) ==
    IF n = 0 THEN <<>> ELSE <<value % 256>> \o to_le_bytes(value \div 256, n - 1)

RECURSIVE strip_trailing_zeros(_)
strip_trailing_zeros(bytes) ==
    IF bytes # <<>> /\ bytes[Len(bytes)] = 0
    THEN strip_trailing_zeros(SubSeq(bytes, 1, Len(bytes) - 1))
    ELSE bytes

\* Hmac::new_from_slice as called by Hkdf::new: a key of at most one block is
\* copied into a block of zero bytes, a longer one is hashed first.  The block
\* is written without its trailing zero bytes: two zero-padded blocks are equal
\* exactly when they are equal without them
hmac_key(salt) ==
    IF Len(salt) <= HmacBlockSize
    THEN strip_trailing_zeros(salt)
    ELSE <<"sha256", salt>>

\* Hkdf::<Sha256>::new(Some(salt), ikm) followed by expand(info, 32 bytes)
hkdf(salt, ikm, info) == <<"hkdf-sha256", hmac_key(salt), ikm, info>>

derive_symmetric_key(master_key, component_id, index) ==
    LET info == <<"osnova-v1-key-derivation">> \o to_le_bytes(index, 8)
    IN  hkdf(component_id, master_key, info)

----------------------------------------------------------------------------
(* models::key_cocoon *)

Some(v) == <<v>>
None == <<>>

\* Display of a u64
RECURSIVE decimal(_)
decimal(n) ==
    IF n < 10 THEN <<48 + n>> ELSE decimal(n \div 10) \o <<48 + (n % 10)>>

\* format!("{}:{}", component_id, index)
key_id(component_id, index) == component_id \o <<58>> \o decimal(index)

DerivedKeyEntry_new(public_key, secret_key, component_id, index, key_type, time) ==
    [public_key |-> public_key, secret_key |-> secret_key,
     component_id |-> component_id, index |-> index,
     created_at |-> time, key_type |-> key_type]

KeyCocoon_new(master_key, time) ==
    [master_key |-> master_key,
     derived_keys |-> <<>>,
     metadata |-> [version |-> 1, created_at |-> time, updated_at |-> time]]

\* add_key keeping the entry a slot already holds (entry().or_insert)
add_key_first_wins(cocoon, entry, time) ==
    LET id == key_id(entry.component_id, entry.index)
    IN  [cocoon EXCEPT
            !.derived_keys = [k \in DOMAIN cocoon.derived_keys \cup {id} |->
                                 IF k \in DOMAIN cocoon.derived_keys
                                 THEN cocoon.derived_keys[k] ELSE entry],
            !.metadata.updated_at = time]

\* HashMap::insert under key_id, then update_timestamp
add_key(cocoon, entry, time) ==
    LET id == key_id(entry.component_id, entry.index)
    IN  [cocoon EXCEPT
            !.derived_keys = [k \in DOMAIN cocoon.derived_keys \cup {id} |->
                                 IF k = id THEN entry ELSE cocoon.derived_keys[k]],
            !.metadata.updated_at = time]

get_key(cocoon, component_id, index) ==
    LET id == key_id(component_id, index)
    IN  IF id \in DOMAIN cocoon.derived_keys
        THEN Some(cocoon.derived_keys[id])
        ELSE None

\* values().find(..): the entries a scan of the HashMap can stop at
get_by_public_key(cocoon, public_key) ==
    {cocoon.derived_keys[k] : k \in {d \in DOMAIN cocoon.derived_keys :
                                        cocoon.derived_keys[d].public_key = public_key}}

\* list_keys without the filter on component_id
list_keys_unfiltered(cocoon, component_id) ==
    {cocoon.derived_keys[k] : k \in DOMAIN cocoon.derived_keys}

list_keys(cocoon, component_id) ==
    {cocoon.derived_keys[k] : k \in {d \in DOMAIN cocoon.derived_keys :
                                        cocoon.derived_keys[d].component_id = component_id}}

highest_index(cocoon, component_id) ==
    LET idx == {e.index : e \in list_keys(cocoon, component_id)}
    IN  IF idx = {} THEN None
        ELSE Some(CHOOSE m \in idx : \A j \in idx : j <= m)

----------------------------------------------------------------------------
(* services::keys *)

generate_ed25519(seed) ==
    Ok([public_key |-> <<"ed25519-verifying-key", seed>>, secret_key |-> <<"secret", seed>>])

generate_x25519(seed) ==
    Ok([public_key |-> <<"x25519-public-key", seed>>, secret_key |-> <<"secret", seed>>])

generate_secp256k1(seed) ==
    Err("Secp256k1 key generation not yet implemented")

\* load_cocoon handing out an empty vault when the file cannot be read
load_cocoon_or_default(files, key) ==
    LET data == read(files, CocoonPath, key)
    IN  IF data.ok THEN Ok(from_json(data.val)) ELSE Ok(KeyCocoon_new(key, 0))

load_cocoon(files, key) ==
    LET data == read(files, CocoonPath, key)
    IN  IF data.ok THEN Ok(from_json(data.val)) ELSE data

save_cocoon(files, key, cocoon) ==
    write(files, CocoonPath, to_json(cocoon), key)

KeyDerivationResponse(entry) ==
    [public_key |-> entry.public_key, index |-> entry.index, created |-> entry.created_at]

\* returns the files after the call and the call's result
derive_at_index_internal(files, key, cocoon, component_id, index, key_type, time) ==
    LET derived_seed == derive_symmetric_key(cocoon.master_key, component_id, index)
        pair == CASE key_type = Ed25519 -> generate_ed25519(derived_seed)
                  [] key_type = X25519 -> generate_x25519(derived_seed)
                  [] key_type = Secp256k1 -> generate_secp256k1(derived_seed)
    IN  IF ~pair.ok
        THEN [files |-> files, res |-> pair]
        ELSE LET entry == DerivedKeyEntry_new(pair.val.public_key, pair.val.secret_key,
                                              component_id, index, key_type, time)
             IN  [files |-> save_cocoon(files, key, add_key(cocoon, entry, time)),
                  res |-> Ok(KeyDerivationResponse(entry))]

\* initialize with the check for an existing vault file left out
initialize_overwriting(files, key, master_key, time) ==
    [files |-> save_cocoon(files, key, KeyCocoon_new(master_key, time)),
     res |-> Ok(<<>>)]

initialize(files, key, master_key, time) ==
    IF exists(files, CocoonPath)
    THEN [files |-> files, res |-> Ok(<<>>)]
    ELSE [files |-> save_cocoon(files, key, KeyCocoon_new(master_key, time)),
          res |-> Ok(<<>>)]

\* the values i + 1 can take on u64: at the largest value a build without
\* overflow checks wraps to 0 and a build with them panics (None)
next_after(i) == IF i = IndexMax THEN {Some(0), None} ELSE {Some(i + 1)}

\* derive from its load of the vault on: the outcomes of the call, more than
\* one only where the build decides; files is the storage when it saves
derive_loaded(files, key, loaded, component_id, key_type, time) ==
    IF ~loaded.ok THEN {[files |-> files, res |-> loaded]}
    ELSE LET cocoon == loaded.val
             highest == highest_index(cocoon, component_id)
             next_indices == IF highest = None THEN {Some(0)} ELSE next_after(highest[1])
         IN  {IF next_index = None
              THEN [files |-> files, res |-> Err("panic: attempt to add with overflow")]
              ELSE derive_at_index_internal(files, key, cocoon, component_id,
                                            next_index[1], key_type, time) :
              next_index \in next_indices}

derive(files, key, component_id, key_type, time) ==
    derive_loaded(files, key, load_cocoon(files, key), component_id, key_type, time)

\* derive_at_index from its load of the vault on, reading the vault again from
\* the storage it is about to save to
derive_at_index_reloading(files, key, loaded, component_id, index, key_type, time) ==
    LET again == load_cocoon(files, key)
    IN  IF ~again.ok THEN [files |-> files, res |-> again]
        ELSE LET found == get_key(again.val, component_id, index)
             IN  IF found # None
                 THEN [files |-> files, res |-> Ok(KeyDerivationResponse(found[1]))]
                 ELSE derive_at_index_internal(files, key, again.val, component_id,
                                               index, key_type, time)

\* derive_at_index from its load of the vault on; files is the storage when
\* it saves
derive_at_index_loaded(files, key, loaded, component_id, index, key_type, time) ==
    IF ~loaded.ok THEN [files |-> files, res |-> loaded]
    ELSE LET cocoon == loaded.val
             found == get_key(cocoon, component_id, index)
         IN  IF found # None
             THEN [files |-> files, res |-> Ok(KeyDerivationResponse(found[1]))]
             ELSE derive_at_index_internal(files, key, cocoon, component_id,
                                           index, key_type, time)

\* derive_at_index returning the stored entry only when it has the key type
\* asked for
derive_at_index_matching_type(files, key, component_id, index, key_type, time) ==
    LET loaded == load_cocoon(files, key)
    IN  IF ~loaded.ok THEN [files |-> files, res |-> loaded]
        ELSE LET found == get_key(loaded.val, component_id, index)
             IN  IF found # None /\ found[1].key_type = key_type
                 THEN [files |-> files, res |-> Ok(KeyDerivationResponse(found[1]))]
                 ELSE derive_at_index_internal(files, key, loaded.val, component_id,
                                               index, key_type, time)

\* derive_at_index without the lookup of the slot
derive_at_index_no_lookup(files, key, component_id, index, key_type, time) ==
    LET loaded == load_cocoon(files, key)
    IN  IF ~loaded.ok THEN [files |-> files, res |-> loaded]
        ELSE derive_at_index_internal(files, key, loaded.val, component_id,
                                      index, key_type, time)

derive_at_index(files, key, component_id, index, key_type, time) ==
    derive_at_index_loaded(files, key, load_cocoon(files, key),
                           component_id, index, key_type, time)

SecretKeyResponse(entry) ==
    [secret_key |-> entry.secret_key, component_id |-> entry.component_id,
     index |-> entry.index]

\* the results the call can return (one per entry the scan can stop at)
KeyService_get_by_public_key(files, key, public_key) ==
    LET loaded == load_cocoon(files, key)
    IN  IF ~loaded.ok THEN {loaded}
        ELSE LET hits == get_by_public_key(loaded.val, public_key)
             IN  IF hits = {} THEN {Err("Public key not found")}
                 ELSE {Ok(SecretKeyResponse(e)) : e \in hits}

KeyInfo(entry) ==
    [public_key |-> entry.public_key, index |-> entry.index,
     key_type |-> entry.key_type, created |-> entry.created_at]

list_for_component(files, key, component_id) ==
    LET loaded == load_cocoon(files, key)
    IN  IF ~loaded.ok THEN loaded
        ELSE Ok({KeyInfo(e) : e \in list_keys(loaded.val, component_id)})


----------------------------------------------------------------------------
(* models::identity *)

\* word counts of a BIP-39 mnemonic
MnemonicWordCounts == {12, 15, 18, 21, 24}

\* a seed phrase as typed: how many words, which entropy they encode, whether
\* every word is in the English list with a matching checksum, and whether the
\* words are separated by single spaces
Phrase(count, entropy, valid, single_spaced) ==
    [count |-> count, entropy |-> entropy, valid |-> valid, single_spaced |-> single_spaced]

\* Mnemonic::parse_in(Language::English, phrase)
parse_in(phrase) ==
    IF phrase.count \in MnemonicWordCounts /\ phrase.valid
    THEN Ok([count |-> phrase.count, entropy |-> phrase.entropy])
    ELSE Err("Identity")

\* Mnemonic::to_string: the words joined by single spaces
mnemonic_to_string(mnemonic) == Phrase(mnemonic.count, mnemonic.entropy, TRUE, TRUE)

\* Hkdf::<Sha256>::new(Some(b"osnova-master-key-v1"), seed).expand(&[], 32 bytes)
derive_master_key(seed) == <<"hkdf-sha256", "osnova-master-key-v1", seed, <<>>>>

from_mnemonic(mnemonic) ==
    LET seed == <<"bip39-seed", mnemonic.count, mnemonic.entropy>>
    IN  Ok([seed_mnemonic |-> mnemonic_to_string(mnemonic),
            master_key |-> derive_master_key(seed)])

\* Mnemonic::generate(12) with the entropy the generator drew
generate(entropy) == from_mnemonic([count |-> 12, entropy |-> entropy])

from_seed(seed_phrase) ==
    LET mnemonic == parse_in(seed_phrase)
    IN  IF mnemonic.ok THEN from_mnemonic(mnemonic.val) ELSE mnemonic

fingerprint(identity) == <<"blake3", identity.master_key>>

\* format!("{}-{}", component_id, purpose) is the salt, the index bytes the info
derive_component_key(identity, component_id, index, purpose) ==
    LET salt_data == component_id \o <<45>> \o purpose
        info == to_le_bytes(index, 4)
    IN  hkdf(salt_data, identity.master_key, info)

----------------------------------------------------------------------------
(* services::identity *)

get_platform_key == "blake3(osnova-platform-key-v1)"

\* first four words of the mnemonic of the fingerprint's first 16 bytes
derive_address(identity) == <<"4-words", fingerprint(identity)>>

load_identity(files, encryption_key) ==
    LET data == read(files, IdentityPath, encryption_key)
    IN  IF data.ok THEN from_seed(from_json(data.val)) ELSE data

\* save_identity under a key that is not the one load_identity is given
save_identity_foreign_key(files, identity, encryption_key) ==
    write(files, IdentityPath, to_json(identity.seed_mnemonic), <<"not", encryption_key>>)

save_identity(files, identity, encryption_key) ==
    write(files, IdentityPath, to_json(identity.seed_mnemonic), encryption_key)

IdentityStatus(initialized, address) == [initialized |-> initialized, address |-> address]

\* status with the error of load_identity handed to the caller
status_propagating(files) ==
    IF ~exists(files, IdentityPath)
    THEN Ok(IdentityStatus(FALSE, None))
    ELSE LET loaded == load_identity(files, get_platform_key)
         IN  IF loaded.ok
             THEN Ok(IdentityStatus(TRUE, Some(derive_address(loaded.val))))
             ELSE loaded

status(files) ==
    IF ~exists(files, IdentityPath)
    THEN Ok(IdentityStatus(FALSE, None))
    ELSE LET loaded == load_identity(files, get_platform_key)
         IN  IF loaded.ok
             THEN Ok(IdentityStatus(TRUE, Some(derive_address(loaded.val))))
             ELSE Ok(IdentityStatus(FALSE, None))

\* create with the check for an existing identity left out
create_overwriting(files, entropy) ==
    LET identity == generate(entropy).val
    IN  [files |-> save_identity(files, identity, get_platform_key),
         res |-> Ok(<<identity.seed_mnemonic, derive_address(identity)>>)]

create(files, entropy) ==
    IF exists(files, IdentityPath)
    THEN [files |-> files, res |-> Err("Identity already exists")]
    ELSE LET identity == generate(entropy).val
         IN  [files |-> save_identity(files, identity, get_platform_key),
              res |-> Ok(<<identity.seed_mnemonic, derive_address(identity)>>)]

\* import_with_phrase writing the phrase before it is parsed
import_with_phrase_unchecked(files, seed_phrase) ==
    IF exists(files, IdentityPath)
    THEN [files |-> files, res |-> Err("Identity already exists")]
    ELSE LET identity == from_seed(seed_phrase)
             written == write(files, IdentityPath, to_json(seed_phrase), get_platform_key)
         IN  IF ~identity.ok
             THEN [files |-> written, res |-> identity]
             ELSE [files |-> written, res |-> Ok(derive_address(identity.val))]

import_with_phrase(files, seed_phrase) ==
    IF exists(files, IdentityPath)
    THEN [files |-> files, res |-> Err("Identity already exists")]
    ELSE LET identity == from_seed(seed_phrase)
         IN  IF ~identity.ok
             THEN [files |-> files, res |-> identity]
             ELSE [files |-> save_identity(files, identity.val, get_platform_key),
                   res |-> Ok(derive_address(identity.val))]

get_identity(files) == load_identity(files, get_platform_key)

\* delete_identity clearing the identity directory, the vault file with it
delete_identity_clearing(files) ==
    [files |-> delete(delete(files, IdentityPath), CocoonPath), res |-> Ok(<<>>)]

delete_identity(files) ==
    [files |-> delete(files, IdentityPath), res |-> Ok(<<>>)]


----------------------------------------------------------------------------
(* cache::manager *)

\* CacheManager.max_size of the cache the model makes
MaxSize == 2
\* the largest data.len() stored; larger than MaxSize
MaxData == 3
\* the largest usize (stands for usize::MAX); usize arithmetic is modulo
\* UsizeMax + 1
UsizeMax == 15

\* "a", "/" and ":"
KeyA == <<97>>
KeySlash == <<47>>
KeyColon == <<58>>
CacheKeys == {KeyA, KeySlash, KeyColon}

\* data by its length
DataSizes == {1, MaxData}

\* key.replace(['/', '\\', ':', '*', '?', '"', '<', '>', '|'], "_")
sanitize_key(key) ==
    [i \in DOMAIN key |->
        IF key[i] \in {47, 92, 58, 42, 63, 34, 60, 62, 124} THEN 95 ELSE key[i]]

CacheEntry(path, size, last_accessed) ==
    [path |-> path, size |-> size, last_accessed |-> last_accessed]

\* a CacheManager: its two shared fields and the files of its cache_dir
Cache(ents, size, files) == [entries |-> ents, current_size |-> size, files |-> files]

\* tokio::fs::remove_file of each path of a set, errors ignored
remove_files(files, paths) == [p \in DOMAIN files \ paths |-> files[p]]

\* HashMap::remove of each key of a set
remove_entries(ents, keys) == [k \in DOMAIN ents \ keys |-> ents[k]]

\* sorted_entries after sort_by_key(last_accessed): the sort is stable over
\* the iteration order of the HashMap, so entries of equal last_accessed come
\* in any order
sorted_entries(ents) ==
    {o \in [1..Cardinality(DOMAIN ents) -> DOMAIN ents] :
        /\ \A i, j \in DOMAIN o : i # j => o[i] # o[j]
        /\ \A i, j \in DOMAIN o : i < j =>
                ents[o[i]].last_accessed <= ents[o[j]].last_accessed}

\* the loop of evict_if_needed from position i on: keys_to_remove
RECURSIVE keys_to_remove(_, _, _, _, _, _)
keys_to_remove(ents, order, i, size, evicted_size, target_size) ==
    IF i > Len(order) \/ size - evicted_size <= target_size
    THEN {}
    ELSE {order[i]} \cup
         keys_to_remove(ents, order, i + 1, size,
                        evicted_size + ents[order[i]].size, target_size)

\* the sum of the sizes of a set of entries
RECURSIVE size_of(_, _)
size_of(ents, keys) ==
    IF keys = {} THEN 0
    ELSE LET k == CHOOSE x \in keys : TRUE
         IN  ents[k].size + size_of(ents, keys \ {k})

\* self.max_size - required_size: a build with overflow checks panics when
\* required_size is the larger, a build without them wraps
target_sizes(max_size, required_size) ==
    IF required_size <= max_size
    THEN {Some(max_size - required_size)}
    ELSE {None, Some((max_size - required_size) % (UsizeMax + 1))}

\* evict_if_needed once it holds both write locks: the caches it can leave,
\* or a panic
evict_locked(cache, max_size, required_size) ==
    {IF target = None
     THEN Err("panic")
     ELSE LET gone == keys_to_remove(cache.entries, order, 1,
                                     cache.current_size, 0, target[1])
          IN  Ok(Cache(remove_entries(cache.entries, gone),
                       cache.current_size - size_of(cache.entries, gone),
                       remove_files(cache.files,
                                    {cache.entries[k].path : k \in gone}))) :
        target \in target_sizes(max_size, required_size),
        order \in sorted_entries(cache.entries)}

\* evict_if_needed of a caller that is alone: the size it read first is the
\* size it finds under the locks
evict_if_needed(cache, max_size, required_size) ==
    IF cache.current_size + required_size <= max_size
    THEN {Ok(cache)}
    ELSE evict_locked(cache, max_size, required_size)

\* CacheManager::store after evict_if_needed: write the file, insert the
\* entry, add the size
store_evicted(cache, key, data_size, time) ==
    LET file_path == sanitize_key(key)
    IN  Cache([k \in DOMAIN cache.entries \cup {key} |->
                  IF k = key THEN CacheEntry(file_path, data_size, time)
                  ELSE cache.entries[k]],
              cache.current_size + data_size,
              [p \in DOMAIN cache.files \cup {file_path} |->
                  IF p = file_path THEN data_size ELSE cache.files[p]])

\* CacheManager::store: the outcomes, each a cache and a result
store(cache, max_size, key, data_size, time) ==
    {IF e.ok
     THEN [cache |-> store_evicted(e.val, key, data_size, time), res |-> Ok(<<>>)]
     ELSE [cache |-> cache, res |-> e] :
        e \in evict_if_needed(cache, max_size, data_size)}

\* CacheManager::get: last_accessed is set before the file is read
cache_get(cache, key, time) ==
    IF key \in DOMAIN cache.entries
    THEN LET touched == [cache EXCEPT !.entries[key].last_accessed = time]
         IN  IF cache.entries[key].path \in DOMAIN cache.files
             THEN [cache |-> touched,
                   res |-> Ok(Some(cache.files[cache.entries[key].path]))]
             ELSE [cache |-> touched, res |-> Err("Storage")]
    ELSE [cache |-> cache, res |-> Ok(None)]

\* current_size.saturating_sub(entry.size)
saturating_sub(a, b) == IF b > a THEN 0 ELSE a - b

\* CacheManager::remove
cache_remove(cache, key) ==
    IF key \in DOMAIN cache.entries
    THEN Cache(remove_entries(cache.entries, {key}),
               saturating_sub(cache.current_size, cache.entries[key].size),
               remove_files(cache.files, {cache.entries[key].path}))
    ELSE cache

\* CacheManager::clear
cache_clear(cache) ==
    Cache(<<>>, 0,
          remove_files(cache.files, {cache.entries[k].path : k \in DOMAIN cache.entries}))

----------------------------------------------------------------------------
(* tokio::sync::RwLock: the lock serves its waiters in the order they asked;
   a writer holds it alone, readers hold it together *)

request(lock, t, mode) ==
    [lock EXCEPT !.queue = Append(@, [who |-> t, mode |-> mode])]

\* the first waiter is t and the lock can be given to it
grantable(lock, t) ==
    /\ lock.queue # <<>>
    /\ Head(lock.queue).who = t
    /\ lock.writer = {}
    /\ Head(lock.queue).mode = "write" => lock.readers = {}

grant(lock) ==
    IF Head(lock.queue).mode = "write"
    THEN [lock EXCEPT !.writer = {Head(lock.queue).who}, !.queue = Tail(@)]
    ELSE [lock EXCEPT !.readers = @ \cup {Head(lock.queue).who}, !.queue = Tail(@)]

\* the guard of t is dropped
release(lock, t) ==
    [lock EXCEPT !.writer = @ \ {t}, !.readers = @ \ {t}]

holders(lock) == lock.writer \cup lock.readers

waiters(lock) == {lock.queue[i].who : i \in DOMAIN lock.queue}

\* the read guard of evict_if_needed's first statement kept until the
\* function returns
after_size_read_kept(lock, t) ==
    lock

\* let current_size = *self.current_size.read().await: the read guard is a
\* temporary, dropped at the end of the statement
after_size_read(lock, t) ==
    release(lock, t)

----------------------------------------------------------------------------
(* Inputs and views *)

Entropies == {"e1", "e2"}

\* "abandon ... about" (valid), the same words with two spaces between them,
\* a valid phrase of 24 words, "invalid seed phrase" (three words), and
\* twelve words whose checksum does not match
ImportPhrases ==
    {Phrase(12, "e1", TRUE, TRUE), Phrase(12, "e1", TRUE, FALSE),
     Phrase(24, "e2", TRUE, TRUE), Phrase(3, "e3", FALSE, TRUE),
     Phrase(12, "e3", FALSE, TRUE)}

Callers == {1, 2}

\* a call as its caller saw it, and whether it wrote a file
Called(op, args, res, wrote) == [op |-> op, args |-> args, res |-> res, wrote |-> wrote]

NoCall == Called("none", <<>>, Ok(<<>>), FALSE)

\* the vault document inside the vault file, whoever holds the key
VaultOf(files) == from_json(files[CocoonPath].body[4])

VaultSize(files) ==
    IF exists(files, CocoonPath)
    THEN Cardinality(DOMAIN VaultOf(files).derived_keys)
    ELSE 0

\* a public key no derivation returns
UnknownPublicKey == <<"nonexistent-key", <<>>>>

IssuedRecord(component_id, key_type, response) ==
    [component_id |-> component_id, index |-> response.index, key_type |-> key_type,
     public_key |-> response.public_key, old |-> FALSE]

----------------------------------------------------------------------------
(* Sequential callers: every call runs to completion before the next *)

\* no cache manager was made
NoLock == [writer |-> {}, readers |-> {}, queue |-> <<>>]
NoCache ==
    /\ entries = <<>>
    /\ current_size = 0
    /\ cache_files = <<>>
    /\ entries_lock = NoLock
    /\ size_lock = NoLock

Init ==
    /\ fs = <<>>
    /\ now = 1
    /\ cocoon_key = "ck1"
    /\ last = NoCall
    /\ issued = {}
    /\ restarts = 0
    /\ pc = [t \in Callers |-> "idle"]
    /\ call = [t \in Callers |-> <<>>]
    /\ local = [t \in Callers |-> <<>>]
    /\ resp = [t \in Callers |-> <<>>]
    /\ overlap = [t \in Callers |-> {}]
    /\ fn_in = <<>>
    /\ fn_out = <<>>
    /\ NoCache

\* a step of the other services leaves the cache alone
CacheUnchanged ==
    UNCHANGED <<entries, current_size, cache_files, entries_lock, size_lock>>

ConcUnchanged ==
    /\ UNCHANGED <<pc, call, local, resp, overlap, fn_in, fn_out>>
    /\ CacheUnchanged

\* the caller has taken the previous result and is free to call again
Ready == last.op = "none"

Return ==
    /\ ~Ready
    /\ last' = NoCall
    /\ UNCHANGED <<fs, now, cocoon_key, issued, restarts>>
    /\ ConcUnchanged

\* the values a read of the clock can return: it does not run backwards
ClockReads == now..MaxTime

\* now is the value the clock returned when it was last read; a call that
\* writes nothing has not read it
Initialize(master_key) ==
    /\ Ready
    /\ \E time \in ClockReads :
        LET r == initialize(fs, cocoon_key, master_key, time)
        IN  /\ fs' = r.files
            /\ now' = IF r.files # fs THEN time ELSE now
            /\ last' = Called("initialize", <<master_key>>, r.res, r.files # fs)
            /\ UNCHANGED <<cocoon_key, issued, restarts>>
            /\ ConcUnchanged

Derive(component_id, key_type) ==
    /\ Ready
    /\ \E time \in ClockReads :
        \E r \in derive(fs, cocoon_key, component_id, key_type, time) :
            /\ VaultSize(r.files) <= MaxKeys
            /\ fs' = r.files
            /\ now' = IF r.files # fs THEN time ELSE now
            /\ last' = Called("derive", <<component_id, key_type>>, r.res, r.files # fs)
            /\ issued' = IF r.res.ok
                         THEN issued \cup {IssuedRecord(component_id, key_type, r.res.val)}
                         ELSE issued
            /\ UNCHANGED <<cocoon_key, restarts>>
            /\ ConcUnchanged

DeriveAtIndex(component_id, index, key_type) ==
    /\ Ready
    /\ \E time \in ClockReads :
        LET r == derive_at_index(fs, cocoon_key, component_id, index, key_type, time)
        IN  /\ VaultSize(r.files) <= MaxKeys
            /\ fs' = r.files
            /\ now' = IF r.files # fs THEN time ELSE now
            /\ last' = Called("derive_at_index", <<component_id, index, key_type>>,
                              r.res, r.files # fs)
            /\ issued' = IF r.res.ok /\ r.files # fs
                         THEN issued \cup {IssuedRecord(component_id, key_type, r.res.val)}
                         ELSE issued
            /\ UNCHANGED <<cocoon_key, restarts>>
            /\ ConcUnchanged

GetByPublicKey(public_key) ==
    /\ Ready
    /\ \E res \in KeyService_get_by_public_key(fs, cocoon_key, public_key) :
          last' = Called("get_by_public_key", <<public_key>>, res, FALSE)
    /\ UNCHANGED <<fs, now, cocoon_key, issued, restarts>>
    /\ ConcUnchanged

ListForComponent(component_id) ==
    /\ Ready
    /\ last' = Called("list_for_component", <<component_id>>,
                       list_for_component(fs, cocoon_key, component_id), FALSE)
    /\ UNCHANGED <<fs, now, cocoon_key, issued, restarts>>
    /\ ConcUnchanged

\* the process ends and KeyService::new opens the same storage path again
Restart(key) ==
    /\ Ready
    /\ restarts < MaxRestarts
    /\ restarts' = restarts + 1
    /\ cocoon_key' = key
    /\ issued' = {[r EXCEPT !.old = TRUE] : r \in issued}
    /\ last' = Called("new", <<key>>, Ok(<<>>), FALSE)
    /\ UNCHANGED <<fs, now>>
    /\ ConcUnchanged

Status ==
    /\ Ready
    /\ last' = Called("status", <<>>, status(fs), FALSE)
    /\ UNCHANGED <<fs, now, cocoon_key, issued, restarts>>
    /\ ConcUnchanged

Create(entropy) ==
    /\ Ready
    /\ LET r == create(fs, entropy)
       IN  /\ fs' = r.files
           /\ last' = Called("create", <<entropy>>, r.res, r.files # fs)
    /\ UNCHANGED <<now, cocoon_key, issued, restarts>>
    /\ ConcUnchanged

ImportWithPhrase(seed_phrase) ==
    /\ Ready
    /\ LET r == import_with_phrase(fs, seed_phrase)
       IN  /\ fs' = r.files
           /\ last' = Called("import_with_phrase", <<seed_phrase>>, r.res, r.files # fs)
    /\ UNCHANGED <<now, cocoon_key, issued, restarts>>
    /\ ConcUnchanged

GetIdentity ==
    /\ Ready
    /\ last' = Called("get_identity", <<>>, get_identity(fs), FALSE)
    /\ UNCHANGED <<fs, now, cocoon_key, issued, restarts>>
    /\ ConcUnchanged

DeleteIdentity ==
    /\ Ready
    /\ LET r == delete_identity(fs)
       IN  /\ fs' = r.files
           /\ last' = Called("delete_identity", <<>>, r.res, r.files # fs)
    /\ UNCHANGED <<now, cocoon_key, issued, restarts>>
    /\ ConcUnchanged

\* a key the platform key store of another installation would hand out
ForeignKey == "foreign-platform-key"

\* what can have happened to the identity file outside the service: written
\* under another platform key, a byte of it modified, or its content replaced
\* by a string that is no seed phrase
Damages == {"foreign_key", "modified", "not_a_seed_phrase"}

damaged(file, kind) ==
    CASE kind = "foreign_key" ->
            encrypt(ForeignKey, decrypt(get_platform_key, file).val)
      [] kind = "modified" ->
            [file EXCEPT !.tag = <<"modified", @>>]
      [] kind = "not_a_seed_phrase" ->
            encrypt(get_platform_key, to_json(Phrase(3, "e3", FALSE, TRUE)))

\* the identity file is damaged while no call runs
DamageIdentityFile(kind) ==
    /\ Ready
    /\ get_identity(fs).ok
    /\ fs' = [fs EXCEPT ![IdentityPath] = damaged(@, kind)]
    /\ UNCHANGED <<now, cocoon_key, last, issued, restarts>>
    /\ ConcUnchanged

Next ==
    \/ \E m \in MasterKeys : Initialize(m)
    \/ \E c \in Components, t \in KeyType : Derive(c, t)
    \/ \E c \in Components, i \in Indices, t \in KeyType : DeriveAtIndex(c, i, t)
    \/ \E p \in {r.public_key : r \in issued} \cup {UnknownPublicKey} : GetByPublicKey(p)
    \/ \E c \in Components : ListForComponent(c)
    \/ Return

Spec == Init /\ [][Next]_vars

----------------------------------------------------------------------------
(* A key service opened with the cocoon key "ck1" on an empty storage root, or
   with another cocoon key on a root where an earlier instance, holding "ck1",
   left a vault *)

InitOpened ==
    /\ cocoon_key \in CocoonKeys
    /\ fs = IF cocoon_key = "ck1"
            THEN <<>>
            ELSE save_cocoon(<<>>, "ck1", KeyCocoon_new("mk1", 1))
    /\ now = 1
    /\ last = NoCall
    /\ issued = {}
    /\ restarts = 0
    /\ pc = [t \in Callers |-> "idle"]
    /\ call = [t \in Callers |-> <<>>]
    /\ local = [t \in Callers |-> <<>>]
    /\ resp = [t \in Callers |-> <<>>]
    /\ overlap = [t \in Callers |-> {}]
    /\ fn_in = <<>>
    /\ fn_out = <<>>
    /\ NoCache

SpecOpened == InitOpened /\ [][Next]_vars

\* the same callers, and the service restarted between their calls
NextRestart ==
    \/ Next
    \/ \E k \in CocoonKeys : Restart(k)

SpecRestart == Init /\ [][NextRestart]_vars

----------------------------------------------------------------------------
(* The identity file and the vault file side by side *)

----------------------------------------------------------------------------
(* Both services on one storage root: the key service called for one
   component, identities created and deleted in between *)

NextBoth ==
    \/ \E m \in MasterKeys : Initialize(m)
    \/ \E t \in KeyType : Derive(CompA, t)
    \/ \E i \in Indices, t \in KeyType : DeriveAtIndex(CompA, i, t)
    \/ \E p \in {r.public_key : r \in issued} \cup {UnknownPublicKey} : GetByPublicKey(p)
    \/ ListForComponent(CompA)
    \/ \E e \in Entropies : Create(e)
    \/ DeleteIdentity
    \/ Return

SpecBoth == Init /\ [][NextBoth]_vars

NextIdentity ==
    \/ Status
    \/ \E e \in Entropies : Create(e)
    \/ \E p \in ImportPhrases : ImportWithPhrase(p)
    \/ GetIdentity
    \/ DeleteIdentity
    \/ \E d \in Damages : DamageIdentityFile(d)
    \/ \E m \in MasterKeys : Initialize(m)
    \/ Return

SpecIdentity == Init /\ [][NextIdentity]_vars

----------------------------------------------------------------------------
(* Two callers of one vault, one call each, once the sequential caller has set
   the vault up: a call loads the vault, and computes and saves in a later
   step; nothing in KeyService orders the steps of two calls *)

\* the caller enters derive_at_index and load_cocoon returns
BeginDeriveAtIndex(t, component_id, index, key_type) ==
    /\ Ready
    /\ pc[t] = "idle"
    /\ pc' = [pc EXCEPT ![t] = "loaded"]
    /\ call' = [call EXCEPT ![t] = <<"derive_at_index", component_id, index, key_type>>]
    /\ local' = [local EXCEPT ![t] = load_cocoon(fs, cocoon_key)]
    /\ overlap' = [overlap EXCEPT ![t] = {}]
    /\ UNCHANGED <<fs, now, cocoon_key, last, issued, restarts, resp, fn_in, fn_out>>
    /\ CacheUnchanged

\* the caller enters derive and load_cocoon returns
BeginDerive(t, component_id, key_type) ==
    /\ Ready
    /\ pc[t] = "idle"
    /\ pc' = [pc EXCEPT ![t] = "loaded"]
    /\ call' = [call EXCEPT ![t] = <<"derive", component_id, key_type>>]
    /\ local' = [local EXCEPT ![t] = load_cocoon(fs, cocoon_key)]
    /\ overlap' = [overlap EXCEPT ![t] = {}]
    /\ UNCHANGED <<fs, now, cocoon_key, last, issued, restarts, resp, fn_in, fn_out>>
    /\ CacheUnchanged

\* the outcomes of the rest of the call, on the vault the caller loaded
Outcomes(t, time) ==
    IF call[t][1] = "derive_at_index"
    THEN {derive_at_index_loaded(fs, cocoon_key, local[t],
                                 call[t][2], call[t][3], call[t][4], time)}
    ELSE derive_loaded(fs, cocoon_key, local[t], call[t][2], call[t][3], time)

\* the rest of the call: lookup, derivation, add_key, save_cocoon, return.
\* overlap[u] collects the callers that saved after u loaded
Finish(t) ==
    /\ pc[t] = "loaded"
    /\ \E time \in ClockReads :
        \E r \in Outcomes(t, time) :
            /\ fs' = r.files
            /\ now' = IF r.files # fs THEN time ELSE now
            /\ resp' = [resp EXCEPT ![t] = [res |-> r.res, wrote |-> r.files # fs]]
            /\ overlap' = [u \in Callers |->
                              IF u # t /\ pc[u] = "loaded" /\ r.files # fs
                              THEN overlap[u] \cup {t}
                              ELSE overlap[u]]
    /\ pc' = [pc EXCEPT ![t] = "done"]
    /\ UNCHANGED <<cocoon_key, last, issued, restarts, call, local, fn_in, fn_out>>
    /\ CacheUnchanged

NextConc ==
    \/ \E m \in MasterKeys : Initialize(m)
    \/ Return
    \/ \E t \in Callers, c \in Components, i \in Indices, k \in KeyType :
          BeginDeriveAtIndex(t, c, i, k)
    \/ \E t \in Callers, c \in Components, k \in KeyType : BeginDerive(t, c, k)
    \/ \E t \in Callers : Finish(t)

SpecConc == Init /\ [][NextConc]_vars

----------------------------------------------------------------------------
(* RootIdentity::derive_component_key applied to two contexts *)

\* "c"
PurposeC == <<99>>
\* "b-c"
PurposeBDashC == <<98, 45, 99>>

\* (component_id, index, purpose)
Contexts == {CompA, CompADashB, CompANul} \X {0, 1} \X {PurposeC, PurposeBDashC}

InitDomain ==
    /\ fs = <<>>
    /\ now = 1
    /\ cocoon_key = "ck1"
    /\ last = NoCall
    /\ issued = {}
    /\ restarts = 0
    /\ pc = [t \in Callers |-> "idle"]
    /\ call = [t \in Callers |-> <<>>]
    /\ local = [t \in Callers |-> <<>>]
    /\ resp = [t \in Callers |-> <<>>]
    /\ overlap = [t \in Callers |-> {}]
    /\ fn_in \in [identity : {generate(e).val : e \in Entropies},
                   first : Contexts, second : Contexts]
    /\ fn_out = <<>>
    /\ NoCache

DeriveComponentKey ==
    /\ fn_out = <<>>
    /\ fn_out' = <<derive_component_key(fn_in.identity, fn_in.first[1],
                                        fn_in.first[2], fn_in.first[3]),
                   derive_component_key(fn_in.identity, fn_in.second[1],
                                        fn_in.second[2], fn_in.second[3])>>
    /\ UNCHANGED <<fs, now, cocoon_key, last, issued, restarts,
                   pc, call, local, resp, overlap, fn_in>>
    /\ CacheUnchanged

NextDomain == DeriveComponentKey

SpecDomain == InitDomain /\ [][NextDomain]_vars

----------------------------------------------------------------------------
(* crypto::encryption as pure functions: CocoonEncryption::encrypt and
   decrypt applied to drawn keys and plaintexts.  fn_in is the sequence of
   the ciphertexts made so far, each with the key and plaintext it was made
   from; fn_out is the last decryption, or empty. *)

\* largest number of ciphertexts made
MaxCiphertexts == 2

\* plaintexts as byte strings; the first is the empty one
Plaintexts == {<<>>, <<"p">>, <<"p", "q">>}

\* what is done to a ciphertext before it is decrypted: nothing, or a byte
\* modified in the nonce, in the tag, or in the encrypted bytes
Tampers == {"none", "nonce", "tag", "body"}

\* a modified byte of the encrypted bytes is a modified byte of the
\* plaintext they stand for (ChaCha20 is a stream cipher)
tampered(ciphertext, kind) ==
    CASE kind = "none" -> ciphertext
      [] kind = "nonce" -> [ciphertext EXCEPT !.nonce = <<"modified", @>>]
      [] kind = "tag" -> [ciphertext EXCEPT !.tag = <<"modified", @>>]
      [] kind = "body" ->
            [ciphertext EXCEPT !.body = [@ EXCEPT ![4] = <<"modified", @>>]]

InitCrypto ==
    /\ fs = <<>>
    /\ now = 1
    /\ cocoon_key = "ck1"
    /\ last = NoCall
    /\ issued = {}
    /\ restarts = 0
    /\ pc = [t \in Callers |-> "idle"]
    /\ call = [t \in Callers |-> <<>>]
    /\ local = [t \in Callers |-> <<>>]
    /\ resp = [t \in Callers |-> <<>>]
    /\ overlap = [t \in Callers |-> {}]
    /\ fn_in = <<>>
    /\ fn_out = <<>>
    /\ NoCache

\* CocoonEncryption::new(key).encrypt(plaintext)
Encrypt(key, plaintext) ==
    /\ Len(fn_in) < MaxCiphertexts
    /\ fn_in' = Append(fn_in, [key |-> key, plaintext |-> plaintext,
                               ciphertext |-> encrypt(key, plaintext)])
    /\ fn_out' = <<>>
    /\ UNCHANGED <<fs, now, cocoon_key, last, issued, restarts,
                   pc, call, local, resp, overlap>>
    /\ CacheUnchanged

\* CocoonEncryption::new(key).decrypt of the i-th ciphertext, tampered or not
Decrypt(key, i, kind) ==
    /\ i \in DOMAIN fn_in
    /\ fn_out' = <<[key |-> key, of |-> i, tamper |-> kind,
                    res |-> decrypt(key, tampered(fn_in[i].ciphertext, kind))]>>
    /\ UNCHANGED <<fs, now, cocoon_key, last, issued, restarts,
                   pc, call, local, resp, overlap, fn_in>>
    /\ CacheUnchanged

NextCrypto ==
    \/ \E key \in CocoonKeys, plaintext \in Plaintexts : Encrypt(key, plaintext)
    \/ \E key \in CocoonKeys, i \in 1..MaxCiphertexts, kind \in Tampers :
            Decrypt(key, i, kind)

SpecCrypto == InitCrypto /\ [][NextCrypto]_vars

----------------------------------------------------------------------------
(* storage::file on its own: FileStorage::write, read and delete applied to
   drawn paths, data and keys.  fn_in is the log of the writes and deletes
   made so far; fn_out is the last read, or empty. *)

\* largest number of writes and deletes made
MaxLog == 3

\* relative paths; the second names the file the first names
Paths == {<<"x">>, <<".", "x">>, <<"y">>}

Data == {<<>>, <<"d">>}

InitStorage ==
    /\ fs = <<>>
    /\ now = 1
    /\ cocoon_key = "ck1"
    /\ last = NoCall
    /\ issued = {}
    /\ restarts = 0
    /\ pc = [t \in Callers |-> "idle"]
    /\ call = [t \in Callers |-> <<>>]
    /\ local = [t \in Callers |-> <<>>]
    /\ resp = [t \in Callers |-> <<>>]
    /\ overlap = [t \in Callers |-> {}]
    /\ fn_in = <<>>
    /\ fn_out = <<>>
    /\ NoCache

\* FileStorage::write(path, data, key)
StorageWrite(path, data, key) ==
    /\ Len(fn_in) < MaxLog
    /\ fs' = write(fs, path, data, key)
    /\ fn_in' = Append(fn_in, [op |-> "write", path |-> path,
                               data |-> data, key |-> key])
    /\ fn_out' = <<>>
    /\ UNCHANGED <<now, cocoon_key, last, issued, restarts,
                   pc, call, local, resp, overlap>>
    /\ CacheUnchanged

\* FileStorage::delete(path)
StorageDelete(path) ==
    /\ Len(fn_in) < MaxLog
    /\ fs' = delete(fs, path)
    /\ fn_in' = Append(fn_in, [op |-> "delete", path |-> path,
                               data |-> <<>>, key |-> "none"])
    /\ fn_out' = <<>>
    /\ UNCHANGED <<now, cocoon_key, last, issued, restarts,
                   pc, call, local, resp, overlap>>
    /\ CacheUnchanged

\* FileStorage::read(path, key)
StorageRead(path, key) ==
    /\ fn_out' = <<[path |-> path, key |-> key, res |-> read(fs, path, key)]>>
    /\ UNCHANGED <<fs, now, cocoon_key, last, issued, restarts,
                   pc, call, local, resp, overlap, fn_in>>
    /\ CacheUnchanged

NextStorage ==
    \/ \E path \in Paths, data \in Data, key \in CocoonKeys :
            StorageWrite(path, data, key)
    \/ \E path \in Paths : StorageDelete(path)
    \/ \E path \in Paths, key \in CocoonKeys : StorageRead(path, key)

SpecStorage == InitStorage /\ [][NextStorage]_vars

----------------------------------------------------------------------------
(* models::key_cocoon on its own: KeyCocoon::add_key applied to drawn
   entries.  fn_in is the KeyCocoon; fn_out is the last entry added, or
   empty. *)

\* "a:0": a component id that ends like the key_id of CompA at index 0
CompAColon0 == <<97, 58, 48>>

VaultComponents == {CompA, CompAColon0}

\* the entries added: their key material is any string
VaultEntries ==
    {DerivedKeyEntry_new(pk, "sk", c, i, Ed25519, 1) :
        pk \in {"pk1", "pk2"}, c \in VaultComponents, i \in Indices}

InitVault ==
    /\ fs = <<>>
    /\ now = 1
    /\ cocoon_key = "ck1"
    /\ last = NoCall
    /\ issued = {}
    /\ restarts = 0
    /\ pc = [t \in Callers |-> "idle"]
    /\ call = [t \in Callers |-> <<>>]
    /\ local = [t \in Callers |-> <<>>]
    /\ resp = [t \in Callers |-> <<>>]
    /\ overlap = [t \in Callers |-> {}]
    /\ fn_in = KeyCocoon_new("mk1", 1)
    /\ fn_out = <<>>
    /\ NoCache

\* KeyCocoon::add_key(entry)
AddKey(entry) ==
    /\ fn_in' = add_key(fn_in, entry, now)
    /\ fn_out' = <<entry>>
    /\ UNCHANGED <<fs, now, cocoon_key, last, issued, restarts,
                   pc, call, local, resp, overlap>>
    /\ CacheUnchanged

NextVault == \E entry \in VaultEntries : AddKey(entry)

SpecVault == InitVault /\ [][NextVault]_vars

----------------------------------------------------------------------------
(* One CacheManager of max_size MaxSize on an empty cache directory, its
   calls made one after the other.  fn_in is history: the keys of the cache in
   the order of their last store or get, the latest last. *)

InitCache ==
    /\ fs = <<>>
    /\ now = 1
    /\ cocoon_key = "ck1"
    /\ last = NoCall
    /\ issued = {}
    /\ restarts = 0
    /\ pc = [t \in Callers |-> "idle"]
    /\ call = [t \in Callers |-> <<>>]
    /\ local = [t \in Callers |-> <<>>]
    /\ resp = [t \in Callers |-> <<>>]
    /\ overlap = [t \in Callers |-> {}]
    /\ fn_in = <<>>
    /\ fn_out = <<>>
    /\ entries = <<>>
    /\ current_size = 0
    /\ cache_files = <<>>
    /\ entries_lock = NoLock
    /\ size_lock = NoLock

CurrentCache == Cache(entries, current_size, cache_files)

\* the keys of a sequence that are left in a set, in their order
Kept(order, keys) == SelectSeq(order, LAMBDA k : k \in keys)

SeqCacheUnchanged ==
    UNCHANGED <<fs, cocoon_key, issued, restarts, pc, call, local, resp,
                overlap, fn_out, entries_lock, size_lock>>

\* cache.store(key, data) with data.len() = data_size
CacheStore(key, data_size) ==
    /\ current_size + data_size <= UsizeMax
    /\ \E time \in ClockReads :
        \E o \in store(CurrentCache, MaxSize, key, data_size, time) :
            /\ entries' = o.cache.entries
            /\ current_size' = o.cache.current_size
            /\ cache_files' = o.cache.files
            /\ now' = IF o.res.ok THEN time ELSE now
            /\ last' = Called("store", <<key, data_size>>, o.res, o.res.ok)
            /\ fn_in' = IF o.res.ok
                        THEN Append(Kept(fn_in, DOMAIN o.cache.entries \ {key}), key)
                        ELSE fn_in
    /\ SeqCacheUnchanged

\* cache.get(key)
CacheGet(key) ==
    /\ \E time \in ClockReads :
        LET o == cache_get(CurrentCache, key, time)
        IN  /\ entries' = o.cache.entries
            /\ now' = IF key \in DOMAIN entries THEN time ELSE now
            /\ last' = Called("get", <<key>>, o.res, FALSE)
            /\ fn_in' = IF key \in DOMAIN entries
                        THEN Append(Kept(fn_in, DOMAIN entries \ {key}), key)
                        ELSE fn_in
    /\ UNCHANGED <<current_size, cache_files>>
    /\ SeqCacheUnchanged

\* cache.remove(key)
CacheRemove(key) ==
    /\ LET c == cache_remove(CurrentCache, key)
       IN  /\ entries' = c.entries
           /\ current_size' = c.current_size
           /\ cache_files' = c.files
           /\ fn_in' = Kept(fn_in, DOMAIN c.entries)
    /\ last' = Called("remove", <<key>>, Ok(<<>>), FALSE)
    /\ UNCHANGED now
    /\ SeqCacheUnchanged

\* cache.clear()
CacheClear ==
    /\ LET c == cache_clear(CurrentCache)
       IN  /\ entries' = c.entries
           /\ current_size' = c.current_size
           /\ cache_files' = c.files
    /\ fn_in' = <<>>
    /\ last' = Called("clear", <<>>, Ok(<<>>), FALSE)
    /\ UNCHANGED now
    /\ SeqCacheUnchanged

NextCache ==
    \/ \E key \in CacheKeys, data_size \in DataSizes : CacheStore(key, data_size)
    \/ \E key \in CacheKeys : CacheGet(key)
    \/ \E key \in CacheKeys : CacheRemove(key)
    \/ CacheClear

SpecCache == InitCache /\ [][NextCache]_vars

----------------------------------------------------------------------------
(* Two clones of one CacheManager, one call each, their steps interleaved at
   the awaits.  pc is where each caller stands and whether it waits for the
   lock there, call is its call, local the timestamp it took; overlap is
   history: who held a lock when the caller had to wait for it. *)

\* the caches the callers find: empty, or filled by earlier stores
InitialCaches ==
    LET one == store_evicted(Cache(<<>>, 0, <<>>), KeyA, 1, 1)
    IN  {Cache(<<>>, 0, <<>>), one, store_evicted(one, KeySlash, 1, 1)}

\* the keys the two callers use: the keys the cache was filled with
ConcKeys == {KeyA, KeySlash}

CacheCalls ==
    {[op |-> "store", key |-> k, size |-> n] : k \in ConcKeys, n \in DataSizes}
        \cup {[op |-> o, key |-> k, size |-> 0] : o \in {"get", "remove"}, k \in ConcKeys}
        \cup {[op |-> "clear", key |-> <<>>, size |-> 0]}

At(label) == [at |-> label, waiting |-> FALSE]

InitCacheConc ==
    /\ fs = <<>>
    /\ now = 1
    /\ cocoon_key = "ck1"
    /\ last = NoCall
    /\ issued = {}
    /\ restarts = 0
    /\ pc = [t \in Callers |-> At("idle")]
    /\ call = [t \in Callers |-> <<>>]
    /\ local = [t \in Callers |-> 0]
    /\ resp = [t \in Callers |-> <<>>]
    /\ overlap = [t \in Callers |-> {}]
    /\ fn_in = <<>>
    /\ fn_out = <<>>
    /\ \E c \in InitialCaches :
        /\ entries = c.entries
        /\ current_size = c.current_size
        /\ cache_files = c.files
    /\ entries_lock = NoLock
    /\ size_lock = NoLock

\* the statements that await a lock: which lock, how, and the statement after
LockAt ==
    [evict_read     |-> [lock |-> "size", mode |-> "read", then |-> "evict_check"],
     evict_entries  |-> [lock |-> "entries", mode |-> "write", then |-> "evict_size"],
     evict_size     |-> [lock |-> "size", mode |-> "write", then |-> "evict_loop"],
     insert_entries |-> [lock |-> "entries", mode |-> "write", then |-> "insert_size"],
     insert_size    |-> [lock |-> "size", mode |-> "write", then |-> "insert"],
     get_entries    |-> [lock |-> "entries", mode |-> "write", then |-> "get_read"],
     remove_entries |-> [lock |-> "entries", mode |-> "write", then |-> "remove_size"],
     remove_size    |-> [lock |-> "size", mode |-> "write", then |-> "remove"],
     clear_entries  |-> [lock |-> "entries", mode |-> "write", then |-> "clear_size"],
     clear_size     |-> [lock |-> "size", mode |-> "write", then |-> "clear"]]

FirstStatement ==
    [store |-> "evict_read", get |-> "get_entries",
     remove |-> "remove_entries", clear |-> "clear_entries"]

OutsideCache == UNCHANGED <<fs, cocoon_key, last, issued, restarts, fn_in, fn_out>>

\* a caller starts a call
CacheBegin(t, c) ==
    /\ pc[t] = At("idle")
    /\ call' = [call EXCEPT ![t] = c]
    /\ pc' = [pc EXCEPT ![t] = At(FirstStatement[c.op])]
    /\ UNCHANGED <<now, local, resp, overlap, entries, current_size, cache_files,
                   entries_lock, size_lock>>
    /\ OutsideCache

\* .read().await / .write().await: the caller joins the lock's waiters
CacheRequest(t) ==
    /\ pc[t].at \in DOMAIN LockAt
    /\ ~pc[t].waiting
    /\ LET l == LockAt[pc[t].at]
       IN  /\ IF l.lock = "entries"
              THEN /\ entries_lock' = request(entries_lock, t, l.mode)
                   /\ overlap' = [overlap EXCEPT ![t] = @ \cup holders(entries_lock)]
                   /\ UNCHANGED size_lock
              ELSE /\ size_lock' = request(size_lock, t, l.mode)
                   /\ overlap' = [overlap EXCEPT ![t] = @ \cup holders(size_lock)]
                   /\ UNCHANGED entries_lock
    /\ pc' = [pc EXCEPT ![t].waiting = TRUE]
    /\ UNCHANGED <<now, call, local, resp, entries, current_size, cache_files>>
    /\ OutsideCache

\* the lock is given to the caller, which goes on to its next statement
CacheAcquire(t) ==
    /\ pc[t].at \in DOMAIN LockAt
    /\ pc[t].waiting
    /\ LET l == LockAt[pc[t].at]
       IN  /\ IF l.lock = "entries"
              THEN /\ grantable(entries_lock, t)
                   /\ entries_lock' = grant(entries_lock)
                   /\ UNCHANGED size_lock
              ELSE /\ grantable(size_lock, t)
                   /\ size_lock' = grant(size_lock)
                   /\ UNCHANGED entries_lock
           /\ pc' = [pc EXCEPT ![t] = At(l.then)]
    /\ UNCHANGED <<now, call, local, resp, overlap, entries, current_size, cache_files>>
    /\ OutsideCache

\* evict_if_needed: the size is read, the read guard dropped, and the caller
\* returns or goes on to evict
CacheEvictCheck(t) ==
    /\ pc[t] = At("evict_check")
    /\ size_lock' = after_size_read(size_lock, t)
    /\ pc' = [pc EXCEPT ![t] =
                IF current_size + call[t].size <= MaxSize
                THEN At("write_file") ELSE At("evict_entries")]
    /\ UNCHANGED <<now, call, local, resp, overlap, entries, current_size,
                   cache_files, entries_lock>>
    /\ OutsideCache

\* evict_if_needed under both write locks; the guards are dropped when it
\* returns and when it panics
CacheEvict(t) ==
    /\ pc[t] = At("evict_loop")
    /\ \E e \in evict_locked(Cache(entries, current_size, cache_files),
                             MaxSize, call[t].size) :
        IF e.ok
        THEN /\ entries' = e.val.entries
             /\ current_size' = e.val.current_size
             /\ cache_files' = e.val.files
             /\ pc' = [pc EXCEPT ![t] = At("write_file")]
             /\ UNCHANGED resp
        ELSE /\ UNCHANGED <<entries, current_size, cache_files>>
             /\ pc' = [pc EXCEPT ![t] = At("done")]
             /\ resp' = [resp EXCEPT ![t] = e]
    /\ entries_lock' = release(entries_lock, t)
    /\ size_lock' = release(size_lock, t)
    /\ UNCHANGED <<now, call, local, overlap>>
    /\ OutsideCache

\* store: the file is written and the timestamp taken, no lock held
CacheWriteFile(t) ==
    /\ pc[t] = At("write_file")
    /\ cache_files' = [p \in DOMAIN cache_files \cup {sanitize_key(call[t].key)} |->
                          IF p = sanitize_key(call[t].key)
                          THEN call[t].size ELSE cache_files[p]]
    /\ \E time \in ClockReads :
        /\ now' = time
        /\ local' = [local EXCEPT ![t] = time]
    /\ pc' = [pc EXCEPT ![t] = At("insert_entries")]
    /\ UNCHANGED <<call, resp, overlap, entries, current_size, entries_lock, size_lock>>
    /\ OutsideCache

\* store: the entry is inserted and the size added, both guards dropped
CacheInsert(t) ==
    /\ pc[t] = At("insert")
    /\ entries' = [k \in DOMAIN entries \cup {call[t].key} |->
                      IF k = call[t].key
                      THEN CacheEntry(sanitize_key(call[t].key), call[t].size, local[t])
                      ELSE entries[k]]
    /\ current_size' = current_size + call[t].size
    /\ entries_lock' = release(entries_lock, t)
    /\ size_lock' = release(size_lock, t)
    /\ pc' = [pc EXCEPT ![t] = At("done")]
    /\ resp' = [resp EXCEPT ![t] = Ok(<<>>)]
    /\ UNCHANGED <<now, call, local, overlap, cache_files>>
    /\ OutsideCache

\* get under the entries lock
CacheGetRead(t) ==
    /\ pc[t] = At("get_read")
    /\ \E time \in ClockReads :
        LET o == cache_get(Cache(entries, current_size, cache_files), call[t].key, time)
        IN  /\ entries' = o.cache.entries
            /\ now' = IF call[t].key \in DOMAIN entries THEN time ELSE now
            /\ resp' = [resp EXCEPT ![t] = o.res]
    /\ entries_lock' = release(entries_lock, t)
    /\ pc' = [pc EXCEPT ![t] = At("done")]
    /\ UNCHANGED <<call, local, overlap, current_size, cache_files, size_lock>>
    /\ OutsideCache

\* remove and clear under both locks
CacheRemoveOrClear(t) ==
    /\ pc[t] \in {At("remove"), At("clear")}
    /\ LET c == IF pc[t] = At("remove")
                THEN cache_remove(Cache(entries, current_size, cache_files), call[t].key)
                ELSE cache_clear(Cache(entries, current_size, cache_files))
       IN  /\ entries' = c.entries
           /\ current_size' = c.current_size
           /\ cache_files' = c.files
    /\ entries_lock' = release(entries_lock, t)
    /\ size_lock' = release(size_lock, t)
    /\ pc' = [pc EXCEPT ![t] = At("done")]
    /\ resp' = [resp EXCEPT ![t] = Ok(<<>>)]
    /\ UNCHANGED <<now, call, local, overlap>>
    /\ OutsideCache

\* the steps of a call in progress
CacheStep(t) ==
    \/ CacheRequest(t)
    \/ CacheAcquire(t)
    \/ CacheEvictCheck(t)
    \/ CacheEvict(t)
    \/ CacheWriteFile(t)
    \/ CacheInsert(t)
    \/ CacheGetRead(t)
    \/ CacheRemoveOrClear(t)

NextCacheConc ==
    \/ \E t \in Callers, c \in CacheCalls : CacheBegin(t, c)
    \/ \E t \in Callers : CacheStep(t)

\* the runtime runs every task that can take a step
SpecCacheConc ==
    /\ InitCacheConc
    /\ [][NextCacheConc]_vars
    /\ \A t \in Callers : WF_vars(CacheStep(t))

----------------------------------------------------------------------------
(* Views used by the properties *)

\* the running service can open the vault
Initialized == load_cocoon(fs, cocoon_key).ok

Implemented == {Ed25519, X25519}

\* the entries of a vault document that sit at slot (component_id, index)
EntriesAt(cocoon, component_id, index) ==
    {k \in DOMAIN cocoon.derived_keys :
        /\ cocoon.derived_keys[k].component_id = component_id
        /\ cocoon.derived_keys[k].index = index}

\* the vault after the step holds exactly one entry at the slot, and it is the
\* one the response describes
StoredAsReturned(component_id, index, key_type) ==
    /\ last'.res.ok
    /\ last'.res.val.index = index
    /\ exists(fs', CocoonPath)
    /\ Cardinality(EntriesAt(VaultOf(fs'), component_id, index)) = 1
    /\ LET found == get_key(VaultOf(fs'), component_id, index)
       IN  /\ found # None
           /\ found[1].key_type = key_type
           /\ found[1].component_id = component_id
           /\ KeyDerivationResponse(found[1]) = last'.res.val

----------------------------------------------------------------------------
(* Properties of the Key Service, sequential callers (Spec) *)

\* C1 as stated: on an initialized vault derive_at_index(c, i, t), for every
\* key type t, returns the entry already at (c, i) verbatim without rewriting
\* the vault, and otherwise derives one entry, stores it and returns it.
C1_DeriveAtIndexEveryType ==
    [][(last'.op = "derive_at_index" /\ Initialized) =>
        LET c == last'.args[1]
            i == last'.args[2]
            t == last'.args[3]
            found == get_key(VaultOf(fs), c, i)
        IN  IF found # None
            THEN /\ last'.res = Ok(KeyDerivationResponse(found[1]))
                 /\ fs' = fs
            ELSE StoredAsReturned(c, i, t)]_vars

\* C1 amended: the same for the key types Ed25519 and X25519; with Secp256k1
\* on an empty slot the call returns an error and the vault is not rewritten.
\* A second call with the same arguments therefore finds the entry of the
\* first and returns its public_key, index and created_at.
C1_DeriveAtIndexIdempotent ==
    [][(last'.op = "derive_at_index" /\ Initialized) =>
        LET c == last'.args[1]
            i == last'.args[2]
            t == last'.args[3]
            found == get_key(VaultOf(fs), c, i)
        IN  IF found # None
            THEN /\ last'.res = Ok(KeyDerivationResponse(found[1]))
                 /\ fs' = fs
            ELSE IF t \in Implemented
                 THEN StoredAsReturned(c, i, t)
                 ELSE ~last'.res.ok /\ fs' = fs]_vars

\* C1 witness: a call on a slot that held an entry returned it, created at an
\* earlier reading of the clock, and wrote nothing
C1_Witness ==
    /\ last.op = "derive_at_index"
    /\ last.res.ok
    /\ ~last.wrote
    /\ last.res.val.created < now

\* the index derive is to use on a vault document: highest + 1 as a number,
\* 0 for a component without entries
NextFreeIndex(cocoon, component_id) ==
    LET highest == highest_index(cocoon, component_id)
    IN  IF highest = None THEN 0 ELSE highest[1] + 1

\* C2 as stated, for the key types that are implemented: on an initialized
\* vault derive(c, t) stores and returns the entry at index highest + 1 of c,
\* or at index 0 when c has no entries. It fails once the highest index of c
\* is the largest one: the call then returns index 0 or does not return.
C2_DeriveNextIndex ==
    [][(last'.op = "derive" /\ Initialized /\ last'.args[2] \in Implemented) =>
        StoredAsReturned(last'.args[1],
                         NextFreeIndex(VaultOf(fs), last'.args[1]),
                         last'.args[2])]_vars

\* C3 as stated: across every call an entry once stored under its slot stays
\* in the vault with the same public_key, secret_key, created_at and
\* key_type. It fails when derive wraps to index 0 and add_key replaces the
\* entry there.
C3_AppendOnly ==
    [][exists(fs, CocoonPath) =>
        /\ exists(fs', CocoonPath)
        /\ \A k \in DOMAIN VaultOf(fs).derived_keys :
              /\ k \in DOMAIN VaultOf(fs').derived_keys
              /\ VaultOf(fs').derived_keys[k] = VaultOf(fs).derived_keys[k]]_vars

\* the public key of type key_type at a slot under a master key
PublicKeyAt(master_key, component_id, index, key_type) ==
    LET derived_seed == derive_symmetric_key(master_key, component_id, index)
    IN  IF key_type = Ed25519
        THEN generate_ed25519(derived_seed).val.public_key
        ELSE generate_x25519(derived_seed).val.public_key

\* C5: initialize(m) creates a vault with master key m and no entries only
\* when there is no vault file; on an existing vault file it returns Ok and
\* leaves the file as it is. No later call changes the master key of the
\* vault, and every entry a later derivation stores is derived from it.
C5_InitializeFirstUseOnly ==
    [][/\ last'.op = "initialize" =>
            /\ last'.res = Ok(<<>>)
            /\ IF exists(fs, CocoonPath)
               THEN fs' = fs
               ELSE load_cocoon(fs', cocoon_key) =
                        Ok(KeyCocoon_new(last'.args[1], now'))
       /\ exists(fs, CocoonPath) =>
            /\ exists(fs', CocoonPath)
            /\ VaultOf(fs').master_key = VaultOf(fs).master_key
            /\ \A k \in DOMAIN VaultOf(fs').derived_keys
                        \ DOMAIN VaultOf(fs).derived_keys :
                  LET e == VaultOf(fs').derived_keys[k]
                  IN  e.public_key = PublicKeyAt(VaultOf(fs).master_key,
                                                 e.component_id, e.index, e.key_type)]_vars

\* C5 witness: initialize with another master key returned Ok on a vault that
\* holds entries, and wrote nothing
C5_Witness ==
    /\ last.op = "initialize"
    /\ last.res.ok
    /\ ~last.wrote
    /\ exists(fs, CocoonPath)
    /\ VaultOf(fs).master_key # last.args[1]
    /\ VaultSize(fs) > 0

\* C9 as stated: the entries of the vault at different slots have different
\* public keys, and get_by_public_key(p), for a public key p that a derive or
\* derive_at_index call returned, returns the component_id and index of that
\* call. It fails for two component ids that differ in trailing NUL bytes.
C9_SlotsHaveDistinctKeys ==
    /\ exists(fs, CocoonPath) =>
          \A k1, k2 \in DOMAIN VaultOf(fs).derived_keys :
              k1 # k2 => VaultOf(fs).derived_keys[k1].public_key
                            # VaultOf(fs).derived_keys[k2].public_key
    /\ (last.op = "get_by_public_key" /\ last.res.ok) =>
          \A r \in issued :
              r.public_key = last.args[1] =>
                  /\ last.res.val.component_id = r.component_id
                  /\ last.res.val.index = r.index

----------------------------------------------------------------------------
(* Properties of the Key Service across restarts (SpecRestart) *)

\* C7 as stated: a restarted service that holds the same cocoon key finds
\* every entry a successful derivation returned before the restart, and
\* derive_at_index with the same slot and type returns the public key that
\* derivation returned. It fails for an entry that a wrapped derive replaced
\* before the restart.
C7_SameKeyAfterRestart ==
    Initialized =>
        \A r \in issued :
            r.old =>
                /\ LET found == get_key(VaultOf(fs), r.component_id, r.index)
                   IN  /\ found # None
                       /\ found[1].public_key = r.public_key
                /\ (/\ last.op = "derive_at_index"
                    /\ last.args = <<r.component_id, r.index, r.key_type>>) =>
                        /\ last.res.ok
                        /\ last.res.val.public_key = r.public_key

----------------------------------------------------------------------------
(* Properties of the Identity Service (SpecIdentity) *)

\* C6: create and import_with_phrase called while an identity file exists
\* return an error and leave the file as it is, so get_identity returns the
\* same seed phrase after the failed call as before it.
C6_CreateFailsClosed ==
    [][(last'.op \in {"create", "import_with_phrase"} /\ exists(fs, IdentityPath)) =>
        /\ ~last'.res.ok
        /\ exists(fs', IdentityPath)
        /\ fs'[IdentityPath] = fs[IdentityPath]
        /\ get_identity(fs') = get_identity(fs)]_vars

\* C6 witness: the import of a valid seed phrase was rejected and the stored
\* identity still holds another seed phrase
C6_Witness ==
    /\ last.op = "import_with_phrase"
    /\ from_seed(last.args[1]).ok
    /\ ~last.res.ok
    /\ get_identity(fs).ok
    /\ get_identity(fs).val.seed_mnemonic # from_seed(last.args[1]).val.seed_mnemonic

----------------------------------------------------------------------------
(* Properties of concurrent callers (SpecConc) *)

\* the slot a caller's call is about, once it has its response
SlotOf(t, response) == key_id(call[t][2], response.res.val.index)

\* C4: nothing orders the steps of two calls: a call that saves writes the
\* vault it loaded plus its own entry, so an entry that another caller saved
\* after that load is absent from the persisted vault (last write wins).
C4_LastWriteWins ==
    [][\A t \in Callers :
        (pc[t] = "loaded" /\ pc'[t] = "done" /\ resp'[t].wrote) =>
            /\ resp'[t].res.ok
            /\ local[t].ok
            /\ DOMAIN VaultOf(fs').derived_keys =
                   DOMAIN local[t].val.derived_keys \cup {SlotOf(t, resp'[t])}
            /\ \A k \in DOMAIN local[t].val.derived_keys \ {SlotOf(t, resp'[t])} :
                  VaultOf(fs').derived_keys[k] = local[t].val.derived_keys[k]]_vars

\* C4 witness: two calls on different slots both returned success and both
\* saved, one of them between the load and the save of the other, and the
\* entry of the one that saved first is not in the persisted vault
C4_Witness ==
    \E t, u \in Callers :
        /\ t # u
        /\ pc[t] = "done" /\ pc[u] = "done"
        /\ resp[t].res.ok /\ resp[u].res.ok
        /\ resp[t].wrote /\ resp[u].wrote
        /\ t \in overlap[u]
        /\ SlotOf(t, resp[t]) # SlotOf(u, resp[u])
        /\ SlotOf(t, resp[t]) \notin DOMAIN VaultOf(fs).derived_keys
        /\ SlotOf(u, resp[u]) \in DOMAIN VaultOf(fs).derived_keys

----------------------------------------------------------------------------
(* Properties of RootIdentity::derive_component_key (SpecDomain) *)

\* C8 as stated: under one master key two calls whose (component_id, index,
\* purpose) differ return different keys. It fails for ("a-b", i, "c") and
\* ("a", i, "b-c"), which are both given the salt "a-b-c".
C8_DistinctContextsDistinctKeys ==
    (fn_out # <<>> /\ fn_in.first # fn_in.second) => fn_out[1] # fn_out[2]

----------------------------------------------------------------------------
(* Properties of the Key Service, sequential callers (Spec), continued *)

\* the entries of a vault file whose component_id field is component_id
EntriesOf(files, component_id) ==
    IF exists(files, CocoonPath)
    THEN {VaultOf(files).derived_keys[k] :
             k \in {d \in DOMAIN VaultOf(files).derived_keys :
                       VaultOf(files).derived_keys[d].component_id = component_id}}
    ELSE {}

\* C11: derive and derive_at_index on a component leave the entries of every
\* other component as they are, and with them its highest index, from which
\* alone its next derive takes its index; the first derive on a component
\* returns index 0
\* whatever other components hold; list_for_component(c) returns exactly the
\* entries whose component_id is c.
C11_ComponentsIsolated ==
    [][/\ (last'.op \in {"derive", "derive_at_index"}) =>
            \A b \in Components \ {last'.args[1]} :
                /\ EntriesOf(fs', b) = EntriesOf(fs, b)
                /\ Initialized =>
                      highest_index(VaultOf(fs'), b) = highest_index(VaultOf(fs), b)
       /\ (last'.op = "derive" /\ last'.res.ok /\ EntriesOf(fs, last'.args[1]) = {}) =>
            last'.res.val.index = 0
       /\ (last'.op = "list_for_component" /\ Initialized) =>
            last'.res = Ok({KeyInfo(e) : e \in EntriesOf(fs, last'.args[1])})]_vars

\* C11 witness: the first derive on a component returned index 0 while another
\* component holds an entry at the largest index
C11_Witness ==
    /\ last.op = "derive"
    /\ last.res.ok
    /\ last.wrote
    /\ last.res.val.index = 0
    /\ \E b \in Components \ {last.args[1]} :
          highest_index(VaultOf(fs), b) = Some(IndexMax)

----------------------------------------------------------------------------
(* Properties of the Identity Service (SpecIdentity), continued *)

\* C12: when the identity file exists but does not decrypt under the platform
\* key, or its content is no seed phrase, status returns Ok with
\* initialized = false and no address, and leaves the file in place.
C12_StatusHidesLoadFailure ==
    [][(/\ last'.op = "status"
        /\ exists(fs, IdentityPath)
        /\ \/ ~read(fs, IdentityPath, get_platform_key).ok
           \/ ~from_seed(from_json(read(fs, IdentityPath, get_platform_key).val)).ok) =>
            /\ last'.res = Ok(IdentityStatus(FALSE, None))
            /\ exists(fs', IdentityPath)
            /\ fs'[IdentityPath] = fs[IdentityPath]]_vars

\* C12 witness: status returned Ok with initialized = false on an identity
\* file that exists and does not decrypt
C12_Witness ==
    /\ last.op = "status"
    /\ last.res = Ok(IdentityStatus(FALSE, None))
    /\ exists(fs, IdentityPath)
    /\ ~decrypt(get_platform_key, fs[IdentityPath]).ok

----------------------------------------------------------------------------
(* Properties of a key service opened on an existing storage root (SpecOpened) *)

\* C13: where there is no vault file, or the vault file does not decrypt under
\* the cocoon key of the service, derive, derive_at_index, get_by_public_key
\* and list_for_component each return an error and write nothing: no vault
\* file is created and an existing one stays as it is.
C13_NoVaultNoAnswer ==
    [][(/\ last'.op \in {"derive", "derive_at_index",
                         "get_by_public_key", "list_for_component"}
        /\ \/ ~exists(fs, CocoonPath)
           \/ ~decrypt(cocoon_key, fs[CocoonPath]).ok) =>
            /\ ~last'.res.ok
            /\ fs' = fs]_vars

\* C13 witness: derive returned an error on a vault file that exists and does
\* not decrypt under the cocoon key of the service
C13_Witness ==
    /\ last.op = "derive"
    /\ ~last.res.ok
    /\ exists(fs, CocoonPath)
    /\ ~decrypt(cocoon_key, fs[CocoonPath]).ok

----------------------------------------------------------------------------
(* Properties of the two services on one storage root (SpecBoth) *)

KeyServiceCalls ==
    {"initialize", "derive", "derive_at_index", "get_by_public_key", "list_for_component"}

\* C14: delete_identity removes the identity file and nothing else: the vault
\* file, and so every entry in it, stays as it is; and no Key Service
\* operation creates, changes or removes the identity file.
C14_FilesIndependent ==
    [][/\ last'.op = "delete_identity" =>
            /\ DOMAIN fs' = DOMAIN fs \ {IdentityPath}
            /\ exists(fs, CocoonPath) => fs'[CocoonPath] = fs[CocoonPath]
       /\ last'.op \in KeyServiceCalls =>
            /\ exists(fs', IdentityPath) <=> exists(fs, IdentityPath)
            /\ exists(fs, IdentityPath) => fs'[IdentityPath] = fs[IdentityPath]]_vars

\* C14 witness: delete_identity removed the identity file from a storage root
\* whose vault holds entries, and the vault still holds them
C14_Witness ==
    /\ last.op = "delete_identity"
    /\ last.wrote
    /\ ~exists(fs, IdentityPath)
    /\ VaultSize(fs) > 0

\* the string of a phrase with its words separated by single spaces
SingleSpaced(phrase) == [phrase EXCEPT !.single_spaced = TRUE]

\* C15 as stated: after create returned (seed_phrase, address), or
\* import_with_phrase(p) returned address, status reports initialized = true
\* with that address and get_identity returns an identity whose seed phrase
\* is seed_phrase, resp. p. It fails for a phrase p whose words are not
\* separated by single spaces.
C15_IdentityRoundTripVerbatim ==
    /\ (last.op = "create" /\ last.res.ok) =>
          /\ status(fs) = Ok(IdentityStatus(TRUE, Some(last.res.val[2])))
          /\ get_identity(fs).ok
          /\ get_identity(fs).val.seed_mnemonic = last.res.val[1]
    /\ (last.op = "import_with_phrase" /\ last.res.ok) =>
          /\ status(fs) = Ok(IdentityStatus(TRUE, Some(last.res.val)))
          /\ get_identity(fs).ok
          /\ get_identity(fs).val.seed_mnemonic = last.args[1]

\* C15 amended: the same, with the seed phrase that get_identity returns after
\* import_with_phrase(p) being the words of p separated by single spaces.
C15_IdentityRoundTrip ==
    /\ (last.op = "create" /\ last.res.ok) =>
          /\ status(fs) = Ok(IdentityStatus(TRUE, Some(last.res.val[2])))
          /\ get_identity(fs).ok
          /\ get_identity(fs).val.seed_mnemonic = last.res.val[1]
    /\ (last.op = "import_with_phrase" /\ last.res.ok) =>
          /\ status(fs) = Ok(IdentityStatus(TRUE, Some(last.res.val)))
          /\ get_identity(fs).ok
          /\ get_identity(fs).val.seed_mnemonic = SingleSpaced(last.args[1])

\* C15 witness: a phrase with two spaces between its words was imported and
\* the stored identity holds its words separated by single spaces
C15_Witness ==
    /\ last.op = "import_with_phrase"
    /\ last.res.ok
    /\ ~last.args[1].single_spaced
    /\ get_identity(fs).ok
    /\ get_identity(fs).val.seed_mnemonic = SingleSpaced(last.args[1])

\* C16: on a storage root without an identity, import_with_phrase with a
\* phrase that is no valid seed phrase returns the Identity error of from_seed
\* and writes nothing: status reports initialized = false afterwards, and
\* create and the import of a valid phrase then succeed.
C16_InvalidPhraseRejected ==
    [][(/\ last'.op = "import_with_phrase"
        /\ ~exists(fs, IdentityPath)
        /\ ~last'.args[1].valid) =>
            /\ from_seed(last'.args[1]) = Err("Identity")
            /\ last'.res = Err("Identity")
            /\ fs' = fs
            /\ status(fs') = Ok(IdentityStatus(FALSE, None))
            /\ \A e \in Entropies : create(fs', e).res.ok
            /\ \A p \in ImportPhrases : p.valid => import_with_phrase(fs', p).res.ok]_vars

\* C16 witness: the import of twelve words that are no seed phrase returned the
\* Identity error and there is no identity file
C16_Witness ==
    /\ last.op = "import_with_phrase"
    /\ last.args[1].count = 12
    /\ last.res = Err("Identity")
    /\ ~exists(fs, IdentityPath)

\* C17: every RootIdentity has a seed phrase of exactly 12 words: the one
\* create stored and the one import_with_phrase accepted, and from_seed, which
\* import_with_phrase calls, returns an error for any other number of words.
C17_TwelveWordsOnly ==
    /\ get_identity(fs).ok => get_identity(fs).val.seed_mnemonic.count = 12
    /\ (last.op = "import_with_phrase" /\ last.args[1].count # 12) =>
            /\ ~from_seed(last.args[1]).ok
            /\ ~last.res.ok

\* C18: decrypt under the key a ciphertext was encrypted with returns the
\* plaintext that was encrypted, the empty one included.
C18_EncryptionRoundTrip ==
    \A d \in DOMAIN fn_out :
        (fn_out[d].tamper = "none" /\ fn_out[d].key = fn_in[fn_out[d].of].key) =>
            fn_out[d].res = Ok(fn_in[fn_out[d].of].plaintext)

\* C18 witness: the ciphertext of the empty plaintext was decrypted under its key
C18_Witness ==
    \E d \in DOMAIN fn_out :
        /\ fn_out[d].tamper = "none"
        /\ fn_out[d].key = fn_in[fn_out[d].of].key
        /\ fn_in[fn_out[d].of].plaintext = <<>>
        /\ fn_out[d].res.ok

\* C19: decrypt under another key than the one of encrypt, or of a ciphertext
\* with a modified byte, returns a Crypto error and no plaintext.
C19_AuthenticatedFailure ==
    \A d \in DOMAIN fn_out :
        (fn_out[d].tamper # "none" \/ fn_out[d].key # fn_in[fn_out[d].of].key) =>
            /\ ~fn_out[d].res.ok
            /\ fn_out[d].res = Err("Crypto")

\* C19 witness: a ciphertext with a modified byte in its encrypted part was
\* decrypted under the key it was made with, and decrypt returned an error
C19_Witness ==
    \E d \in DOMAIN fn_out :
        /\ fn_out[d].tamper = "body"
        /\ fn_out[d].key = fn_in[fn_out[d].of].key
        /\ ~fn_out[d].res.ok

\* C20: two ciphertexts made under one key are equal exactly when their
\* plaintexts are equal: encrypt of the same plaintext gives the same bytes
\* every time, and who sees the two ciphertexts learns whether the plaintexts
\* are equal.
C20_DeterministicEncryption ==
    \A i, j \in DOMAIN fn_in :
        fn_in[i].key = fn_in[j].key =>
            (fn_in[i].ciphertext = fn_in[j].ciphertext
                <=> fn_in[i].plaintext = fn_in[j].plaintext)

\* C20 witness: the same plaintext was encrypted twice under one key, and the
\* two ciphertexts are equal
C20_Witness ==
    /\ Len(fn_in) = 2
    /\ fn_in[1].key = fn_in[2].key
    /\ fn_in[1].plaintext = fn_in[2].plaintext
    /\ fn_in[1].ciphertext = fn_in[2].ciphertext

\* the writes and deletes of the log that are about path, when paths are
\* compared after name(_)
OpsOn(log, path, name(_)) == {i \in DOMAIN log : name(log[i].path) = name(path)}

\* the last of them
LastOn(log, path, name(_)) ==
    CHOOSE i \in OpsOn(log, path, name) : \A j \in OpsOn(log, path, name) : j <= i

\* what an encrypted map from names to bytes answers to a read after log
MapRead(log, path, key, name(_)) ==
    IF OpsOn(log, path, name) = {}
    THEN Err("Storage")
    ELSE LET o == log[LastOn(log, path, name)]
         IN  IF o.op = "delete" THEN Err("Storage")
             ELSE IF o.key # key THEN Err("Crypto")
             ELSE Ok(o.data)

\* the read agrees with the map: the same data, or an error on both sides
AgreesWithMap(path, key, name(_)) ==
    LET got == read(fs, path, key)
        expected == MapRead(fn_in, path, key, name)
    IN  /\ got.ok <=> expected.ok
        /\ got.ok => got = expected

\* C21 as stated: FileStorage is an encrypted map from path to bytes, paths
\* taken as they are written: read(path, k) returns the data of the last
\* write(path, d, k) when no delete of path came after it, whatever was
\* written to or deleted at other paths; it returns an error under another
\* key, and for a path never written or deleted since.
C21_EncryptedMapByPath ==
    \A path \in Paths, key \in CocoonKeys :
        AgreesWithMap(path, key, LAMBDA p : p)

\* C21 amended: the same, with paths compared by the file they name, so that
\* a write or delete through another spelling of the path counts as a write
\* or delete of the path.
C21_EncryptedMapByFile ==
    \A path \in Paths, key \in CocoonKeys :
        AgreesWithMap(path, key, full_path)

\* C21 witness: a path was written, another path written and deleted after
\* it, and the read of the first path under its key returned its data
C21_Witness ==
    /\ Len(fn_in) = 3
    /\ fn_in[1].op = "write" /\ fn_in[1].path = <<"x">> /\ fn_in[1].data = <<"d">>
    /\ fn_in[2].op = "write" /\ fn_in[2].path = <<"y">>
    /\ fn_in[3].op = "delete" /\ fn_in[3].path = <<"y">>
    /\ \E r \in DOMAIN fn_out :
        /\ fn_out[r].path = <<"x">>
        /\ fn_out[r].key = fn_in[1].key
        /\ fn_out[r].res = Ok(<<"d">>)

\* the entries of a KeyCocoon, whatever they are stored under
AllEntries(cocoon) == {cocoon.derived_keys[k] : k \in DOMAIN cocoon.derived_keys}

\* the largest index among the entries of a component, None without entries
MaxIndexOf(cocoon, component_id) ==
    LET idx == {e.index : e \in {x \in AllEntries(cocoon) : x.component_id = component_id}}
    IN  IF idx = {} THEN None
        ELSE Some(CHOOSE m \in idx : \A j \in idx : j <= m)

\* C22: after add_key(e), get_key(e.component_id, e.index) returns e, get_key
\* of every other slot returns what it returned before, and highest_index(c)
\* is the largest index among the entries of c, None when c has none.
C22_VaultRoundTrip ==
    [][\A e \in VaultEntries : fn_out' = <<e>> =>
            /\ get_key(fn_in', e.component_id, e.index) = Some(e)
            /\ \A c \in VaultComponents, i \in Indices :
                    <<c, i>> # <<e.component_id, e.index>> =>
                        get_key(fn_in', c, i) = get_key(fn_in, c, i)
            /\ \A c \in VaultComponents :
                    highest_index(fn_in', c) = MaxIndexOf(fn_in', c)]_vars

\* C22 witness: add_key stored an entry at slot ("a", 0) while the slot
\* ("a:0", 0) and a higher slot of "a" hold entries
C22_Witness ==
    /\ fn_out = <<DerivedKeyEntry_new("pk2", "sk", CompA, 0, Ed25519, 1)>>
    /\ get_key(fn_in, CompA, 0) = Some(fn_out[1])
    /\ get_key(fn_in, CompAColon0, 0) # None
    /\ highest_index(fn_in, CompA) = Some(IndexMax)

----------------------------------------------------------------------------
(* Properties of the cache manager, sequential callers (SpecCache) *)

\* C23: after any sequence of store, get, remove and clear calls,
\* current_size is the sum of the sizes of the entries the cache holds, also
\* after a store for a key that is already present.
C23_SizeIsSumOfEntries ==
    current_size = size_of(entries, DOMAIN entries)

\* C24: after every successful store, current_size <= max_size, for every
\* data size, also one larger than max_size.
C24_NeverOverLimit ==
    (last.op = "store" /\ last.res.ok) => current_size <= MaxSize

\* the place of a key in the order of last accesses
PlaceOf(order, key) == CHOOSE i \in DOMAIN order : order[i] = key

\* C25: a store that evicts removes the entries of oldest last access first:
\* no entry is evicted while an entry whose last store or get came earlier
\* stays in the cache.
C25_EvictsLeastRecentlyUsed ==
    [][(last'.op = "store" /\ last'.res.ok) =>
            \A gone \in (DOMAIN entries \ DOMAIN entries') :
                \A kept \in (DOMAIN entries \cap DOMAIN entries') \ {last'.args[1]} :
                    PlaceOf(fn_in, gone) < PlaceOf(fn_in, kept)]_vars

----------------------------------------------------------------------------
(* Properties of the Key Service, sequential callers (Spec), index arithmetic *)

\* C26: the index a successful derive(c) returns is greater than every index
\* stored for c before the call, and the call leaves every entry stored
\* before it as it was, also when the highest stored index of c is the
\* largest one.
C26_DeriveAboveEveryStoredIndex ==
    [][(last'.op = "derive" /\ last'.res.ok) =>
            /\ \A e \in EntriesOf(fs, last'.args[1]) : e.index < last'.res.val.index
            /\ \A k \in DOMAIN VaultOf(fs).derived_keys :
                    /\ k \in DOMAIN VaultOf(fs').derived_keys
                    /\ VaultOf(fs').derived_keys[k] = VaultOf(fs).derived_keys[k]]_vars

\* C27: when slot (component_id, index) holds an entry of key type t1,
\* derive_at_index(component_id, index, t2) with t2 other than t1, Secp256k1
\* included, returns the stored entry's public key, index and creation time
\* without error and leaves the storage as it was.
C27_OccupiedSlotIgnoresKeyType ==
    [][(/\ last'.op = "derive_at_index"
        /\ Initialized
        /\ get_key(VaultOf(fs), last'.args[1], last'.args[2]) # None
        /\ get_key(VaultOf(fs), last'.args[1], last'.args[2])[1].key_type # last'.args[3]) =>
            /\ last'.res =
                Ok(KeyDerivationResponse(get_key(VaultOf(fs), last'.args[1], last'.args[2])[1]))
            /\ fs' = fs
            /\ \A e \in EntriesOf(fs', last'.args[1]) :
                    e.index = last'.args[2] => e.key_type # last'.args[3]]_vars

\* C27 witness: derive_at_index with Secp256k1 on a slot that holds an Ed25519
\* entry returned that entry's public key
C27_Witness ==
    /\ last.op = "derive_at_index"
    /\ last.args[3] = Secp256k1
    /\ last.res.ok
    /\ Initialized
    /\ get_key(VaultOf(fs), last.args[1], last.args[2]) # None
    /\ get_key(VaultOf(fs), last.args[1], last.args[2])[1].key_type = Ed25519
    /\ last.res.val.public_key =
            get_key(VaultOf(fs), last.args[1], last.args[2])[1].public_key

\* C28: on an initialized vault derive(c, Secp256k1), and
\* derive_at_index(c, i, Secp256k1) on an empty slot, return the error of
\* generate_secp256k1 and leave the storage as it was: no entry added,
\* updated_at as before, and the next derive on c has the outcomes it had
\* before the failed call.
C28_Secp256k1FailsClean ==
    [][(/\ last'.op \in {"derive", "derive_at_index"}
        /\ Initialized
        /\ \/ last'.op = "derive" /\ last'.args[2] = Secp256k1
           \/ /\ last'.op = "derive_at_index" /\ last'.args[3] = Secp256k1
              /\ get_key(VaultOf(fs), last'.args[1], last'.args[2]) = None) =>
            /\ last'.res = generate_secp256k1(<<>>)
            /\ fs' = fs
            /\ \A t \in Implemented :
                    derive(fs', cocoon_key, last'.args[1], t, now') =
                        derive(fs, cocoon_key, last'.args[1], t, now')]_vars

----------------------------------------------------------------------------
(* Properties of the Identity Service (SpecIdentity), status and create *)

\* C29: status and create agree on whether an identity exists: in every
\* state where status reports initialized = false, create and
\* import_with_phrase of a valid phrase succeed, and create is rejected with
\* "already exists" only where status reports initialized = true.
C29_StatusAndCreateAgree ==
    /\ ~status(fs).val.initialized =>
            /\ \A e \in Entropies : create(fs, e).res.ok
            /\ \A p \in ImportPhrases : p.valid => import_with_phrase(fs, p).res.ok
    /\ (\E e \in Entropies : create(fs, e).res = Err("Identity already exists")) =>
            status(fs).val.initialized

----------------------------------------------------------------------------
(* Properties of concurrent callers of the cache manager (SpecCacheConc) *)

\* no caller waits for the entries lock while it holds the size lock
EntriesBeforeSize ==
    \A t \in Callers : t \in waiters(entries_lock) => t \notin holders(size_lock)

\* C30: under every interleaving of store, get, remove and clear on clones of
\* one cache the two locks are taken in one order, the entries lock before
\* the size lock, and no call waits forever: every call that was begun ends
\* (it returns, or a store of data larger than max_size panics in
\* evict_if_needed, which drops its guards).
C30_LocksOrderedAndCallsEnd ==
    /\ []EntriesBeforeSize
    /\ \A t \in Callers : (pc[t].at # "idle") ~> (pc[t].at = "done")

\* C30 witness: both calls have ended, one of them a store that returned Ok
\* after it had to wait for a lock its peer held
C30_Witness ==
    /\ \A t \in Callers : pc[t].at = "done"
    /\ \E t \in Callers :
        /\ call[t].op = "store"
        /\ resp[t].ok
        /\ overlap[t] # {}

====
